---- MODULE Spec2Model ----
(***************************************************************************)
(* Proof-of-Stake consensus simulator (src/script.py): Block, Blockchain,  *)
(* ValidatorNode and PoSConsensusSimulator.                                *)
(*                                                                         *)
(* Modelling conventions                                                   *)
(*  - A Transaction object is a natural number, its identity; the objects  *)
(*    are numbered in creation order and are never mutated.                *)
(*  - An address is a natural number: validator i of the simulator has     *)
(*    address i (distinct 20-byte draws), "SYSTEM_GENESIS" is 0.           *)
(*  - A digest is a sequence of naturals: Keccak over the sorted-key JSON  *)
(*    text is modelled as the injective, length-prefixed encoding of the   *)
(*    five hashed fields in sorted-key order.  "0"*64 is <<0>>, which no   *)
(*    encoding equals.                                                     *)
(*  - A stake is a float; the model follows the draws of                   *)
(*    random.uniform(0.8, 1.5) that are multiples of 1/8 on base stakes    *)
(*    that make every product an integer.  On such stakes every float      *)
(*    product, sum and quotient of the code is exact, and the float test   *)
(*    a / t >= 2/3 agrees with the exact test 3a >= 2t.  Sums of stakes    *)
(*    that the float addition rounds are not followed.                     *)
(*  - time.time() is the clock `now`, which never runs backwards.          *)
(***************************************************************************)
EXTENDS Integers, Sequences, FiniteSets, TLC

VARIABLES chain, mempool, validators, now, nextTx, held, heldAt, last

vars == <<chain, mempool, validators, now, nextTx, held, heldAt, last>>

(* ------------------------------ bounds -------------------------------- *)

\* a chain of MaxChain blocks is not extended further: add_block and
\* run_simulation_round are followed on every chain shorter than that
MaxChain == 3
\* largest clock value
MaxTime == 0
\* a round is followed, for every draw and every reply, in every state in
\* which at most MaxTx Transaction objects have been created so far
MaxTx == 9

\* A draw d of random.uniform(0.8, 1.5) stands for the float d / 8:
\* 7 is 0.875, 8 is 1.0, 11 is 1.375.
StakeDrawUnit == 8

\* The constructor calls PoSConsensusSimulator(num, stake) the model
\* follows, each with the draws of random.uniform(0.8, 1.5) it meets.
ConstructorCalls ==
    { [num |-> 0, stake |-> 1000, draws |-> <<>>],
      [num |-> 2, stake |-> 0, draws |-> <<8, 11>>],
      [num |-> 2, stake |-> 80, draws |-> <<7, 11>>],
      [num |-> 1, stake |-> 80, draws |-> <<7>>] }

\* Number of posts in a reply of the API: none, fewer than asked for, seven.
FetchSizes == {0, 2, 7}

\* Number of well-formed posts a reply holds before an element that is not
\* an object; 0 is also the reply that is not a list at all.
MalformedAt == {0, 1}

\* The draws of random.randint(5, 10).
RequestCounts == 5..10

\* What validate_block of a validator is in a round: the code, or a stub
\* that returns false (the forced votes of the test scenarios).
VoteModes == {"real", "no"}

(* ------------------------- program constants -------------------------- *)

\* validator="SYSTEM_GENESIS"
SYSTEM_GENESIS == 0
\* previous_hash="0"*64
ZeroHash == <<0>>
\* len(self.mempool) < 5
LowWatermark == 5
\* self.mempool[:5], self.mempool[5:]
BatchSize == 5

(* ------------------------------ helpers ------------------------------- *)

Min(a, b) == IF a <= b THEN a ELSE b

\* s[:n]
Take(s, n) == SubSeq(s, 1, Min(n, Len(s)))

\* s[n:]
Drop(s, n) == SubSeq(s, Min(n, Len(s)) + 1, Len(s))

\* the fresh Transaction objects first, first+1, ..., first+n-1
FreshTxs(first, n) == [k \in 1..n |-> first + k - 1]

(* ------------------------------- Block -------------------------------- *)

\* Block.calculate_hash: digest of the sorted-key JSON of index,
\* previous_hash, timestamp, transactions, validator.
calculate_hash(b) ==
    <<b.index>> \o <<Len(b.previous_hash)>> \o b.previous_hash
      \o <<b.timestamp>> \o <<Len(b.transactions)>> \o b.transactions
      \o <<b.validator>>

\* the fields Block.__init__ stores before it computes the hash
BlockFields(index, transactions, previous_hash, validator, t) ==
    [index |-> index, timestamp |-> t, transactions |-> transactions,
     previous_hash |-> previous_hash, validator |-> validator]

\* Block.__init__ at clock value t
Block(index, transactions, previous_hash, validator, t) ==
    [index |-> index, timestamp |-> t, transactions |-> transactions,
     previous_hash |-> previous_hash, validator |-> validator,
     hash |-> calculate_hash(BlockFields(index, transactions, previous_hash, validator, t))]

(* ----------------------------- Blockchain ----------------------------- *)

\* a genesis block numbered 1
create_genesis_block_index_one(t) == Block(1, <<>>, ZeroHash, SYSTEM_GENESIS, t)

\* Blockchain._create_genesis_block
create_genesis_block(t) == Block(0, <<>>, ZeroHash, SYSTEM_GENESIS, t)

\* Blockchain.last_block
last_block(c) == c[Len(c)]

\* the warnings with the hash recomputation tested before the link
validation_warning_hash_before_link(block, previous_block) ==
    IF block.index # previous_block.index + 1 THEN "index"
    ELSE IF block.hash # calculate_hash(block) THEN "hash"
    ELSE IF block.previous_hash # previous_block.hash THEN "previous_hash"
    ELSE "none"

\* the warning Blockchain.is_block_valid logs before it returns
validation_warning(block, previous_block) ==
    IF block.index # previous_block.index + 1 THEN "index"
    ELSE IF block.previous_hash # previous_block.hash THEN "previous_hash"
    ELSE IF block.hash # calculate_hash(block) THEN "hash"
    ELSE "none"

\* is_block_valid that wants the candidate to carry the tip's own index
is_block_valid_same_index(block, previous_block) ==
    IF block.index # previous_block.index THEN FALSE
    ELSE IF block.previous_hash # previous_block.hash THEN FALSE
    ELSE IF block.hash # calculate_hash(block) THEN FALSE
    ELSE TRUE

\* is_block_valid without the previous-hash check
is_block_valid_no_link(block, previous_block) ==
    IF block.index # previous_block.index + 1 THEN FALSE
    ELSE IF block.hash # calculate_hash(block) THEN FALSE
    ELSE TRUE

\* is_block_valid without the recomputation of the hash
is_block_valid_no_rehash(block, previous_block) ==
    IF block.index # previous_block.index + 1 THEN FALSE
    ELSE IF block.previous_hash # previous_block.hash THEN FALSE
    ELSE TRUE

\* Blockchain.is_block_valid
is_block_valid(block, previous_block) ==
    IF block.index # previous_block.index + 1 THEN FALSE
    ELSE IF block.previous_hash # previous_block.hash THEN FALSE
    ELSE IF block.hash # calculate_hash(block) THEN FALSE
    ELSE TRUE

\* add_block that overwrites the tip with the accepted block
add_block_replaces_tip(c, block) ==
    IF is_block_valid(block, last_block(c))
    THEN [ret |-> TRUE, chain |-> [c EXCEPT ![Len(c)] = block]]
    ELSE [ret |-> FALSE, chain |-> c]

\* add_block that appends before it looks at the validation result
add_block_always_appends(c, block) ==
    [ret |-> is_block_valid(block, last_block(c)), chain |-> Append(c, block)]

\* Blockchain.add_block: the returned value and the chain afterwards
add_block(c, block) ==
    IF is_block_valid(block, last_block(c))
    THEN [ret |-> TRUE, chain |-> Append(c, block)]
    ELSE [ret |-> FALSE, chain |-> c]

(* ---------------------------- ValidatorNode --------------------------- *)

\* propose_block that links to the tip's predecessor
propose_block_prev_of_tip(address, transactions, c, t) ==
    Block(last_block(c).index + 1, transactions, last_block(c).previous_hash, address, t)

\* propose_block that reuses the tip's index
propose_block_same_index(address, transactions, c, t) ==
    Block(last_block(c).index, transactions, last_block(c).hash, address, t)

\* ValidatorNode.propose_block of the validator with this address
propose_block(address, transactions, c, t) ==
    Block(last_block(c).index + 1, transactions, last_block(c).hash, address, t)

\* validate_block against the block's own predecessor in the chain, the tip
\* at proposal time, instead of the current tip
validate_block_proposal_tip(mode, block, c) ==
    IF mode = "real" THEN is_block_valid(block, c[block.index])
    ELSE FALSE

\* ValidatorNode.validate_block; mode "no" is a validator stubbed to refuse
validate_block(mode, block, c) ==
    IF mode = "real" THEN is_block_valid(block, last_block(c))
    ELSE FALSE

(* ------------------------ PoSConsensusSimulator ----------------------- *)

\* ValidatorNode.__init__; the blockchain every validator refers to is the
\* one chain of the model
ValidatorNode(address, stake) == [address |-> address, stake |-> stake]

\* PoSConsensusSimulator._create_validators: validator i gets
\* stake * random.uniform(0.8, 1.5), the draw being draws[i] / 8; for the
\* calls the model follows stake * draws[i] is a multiple of 8, so the
\* float product is the integer computed here
create_validators(num, stake, draws) ==
    [i \in 1..num |-> ValidatorNode(i, (stake * draws[i]) \div StakeDrawUnit)]

\* a validator list a caller builds from ValidatorNode objects of its own
\* and gives to the simulator
BuiltValidators(stakes) ==
    [i \in 1..Len(stakes) |-> ValidatorNode(i, stakes[i])]

RECURSIVE SumStake(_, _)
\* sum(v.stake for v in self.validators), over the first n validators
SumStake(vs, n) == IF n = 0 THEN 0 ELSE SumStake(vs, n - 1) + vs[n].stake

\* _select_leader raises: ZeroDivisionError on a zero total, IndexError
\* from random.choices on an empty validator list
select_leader_raises(vs) == Len(vs) = 0 \/ SumStake(vs, Len(vs)) = 0

\* the validators random.choices can return: those of positive weight
select_leader(vs) ==
    {i \in 1..Len(vs) : vs[i].stake * SumStake(vs, Len(vs)) > 0}

\* the vote loop's state before its first iteration
TallyStart(vs) ==
    [total |-> 0, approving |-> 0,
     asked |-> [i \in 1..Len(vs) |-> 0],
     votes |-> [i \in 1..Len(vs) |-> "none"]]

\* the vote loop without the leader's shortcut: the leader is asked too
TallyStep_leader_votes(acc, vs, i, leader, block, c, modes) ==
    LET vote == validate_block(modes[i], block, c)
    IN  [total |-> acc.total + vs[i].stake,
         approving |-> IF vote THEN acc.approving + vs[i].stake ELSE acc.approving,
         asked |-> [acc.asked EXCEPT ![i] = @ + 1],
         votes |-> [acc.votes EXCEPT ![i] = IF vote THEN "yes" ELSE "no"]]

\* the vote loop that skips the leader instead of counting its stake
TallyStep_leader_not_counted(acc, vs, i, leader, block, c, modes) ==
    LET isLeader == vs[i].address = vs[leader].address
        vote == validate_block(modes[i], block, c)
        yes == ~isLeader /\ vote
    IN  [total |-> acc.total + vs[i].stake,
         approving |-> IF yes THEN acc.approving + vs[i].stake ELSE acc.approving,
         asked |-> [acc.asked EXCEPT ![i] = IF isLeader THEN @ ELSE @ + 1],
         votes |-> [acc.votes EXCEPT ![i] =
                       IF isLeader THEN "auto" ELSE IF vote THEN "yes" ELSE "no"]]

\* one iteration of the vote loop, for validator i
TallyStep(acc, vs, i, leader, block, c, modes) ==
    LET isLeader == vs[i].address = vs[leader].address
        vote == validate_block(modes[i], block, c)
        yes == isLeader \/ vote
    IN  [total |-> acc.total + vs[i].stake,
         approving |-> IF yes THEN acc.approving + vs[i].stake ELSE acc.approving,
         asked |-> [acc.asked EXCEPT ![i] = IF isLeader THEN @ ELSE @ + 1],
         votes |-> [acc.votes EXCEPT ![i] =
                       IF isLeader THEN "auto" ELSE IF vote THEN "yes" ELSE "no"]]

RECURSIVE Tally(_, _, _, _, _, _)
\* the vote loop over the first n validators
Tally(vs, n, leader, block, c, modes) ==
    IF n = 0 THEN TallyStart(vs)
    ELSE TallyStep(Tally(vs, n - 1, leader, block, c, modes),
                   vs, n, leader, block, c, modes)

\* the threshold test with > in place of >=
ConsensusReached_strict(approving, total) ==
    IF total > 0 THEN 3 * approving > 2 * total
    ELSE 3 * approving < 2 * total

\* approving_stake / total_voting_stake >= self.consensus_threshold (2/3).
\* In double arithmetic the test holds exactly when
\* (2 * total - 3 * approving) * 2^54 < 5 * total, which for accumulators
\* below 2^51 is 3 * approving >= 2 * total.
ConsensusReached(approving, total) ==
    IF total > 0 THEN 3 * approving >= 2 * total
    ELSE 3 * approving <= 2 * total

(* ------------------------------ the state ----------------------------- *)

NoCall == [op |-> "none"]

Init ==
    /\ now = 0
    /\ chain = <<create_genesis_block(0)>>
    /\ \E c \in ConstructorCalls :
          validators = create_validators(c.num, c.stake, c.draws)
    /\ mempool = <<>>
    /\ nextTx = 1
    /\ held = <<>>
    /\ heldAt = 0
    /\ last = NoCall

(* ------------------------------ operations ---------------------------- *)

\* The blocks a caller hands to add_block: built by Block(...) at time t on
\* or off the tip, with a right or a wrong index and a right or a wrong
\* link, each of them also with the hash attribute overwritten afterwards,
\* so that every subset of the three checks of is_block_valid fails for
\* some candidate.
CandidateBlocks(c, pool, t) ==
    LET tip == last_block(c)
        built == { Block(i, txs, ph, SYSTEM_GENESIS, t) :
                     i \in {tip.index, tip.index + 1},
                     txs \in {Take(pool, 1)},
                     ph \in {tip.hash, ZeroHash} }
        tampered == { [b EXCEPT !.hash = tip.hash] : b \in built }
    IN  built \cup tampered

\* blockchain.add_block(block) called from outside a round
AddBlock ==
    /\ Len(chain) < MaxChain
    /\ \E t \in now..MaxTime :
         \E block \in CandidateBlocks(chain, mempool, t) :
         \E r \in {add_block(chain, block)} :
            /\ chain' = r.chain
            /\ now' = t
            /\ last' = [op |-> "add_block", block |-> block, ret |-> r.ret,
                        why |-> validation_warning(block, last_block(chain)),
                        chain0 |-> chain]
    /\ UNCHANGED <<mempool, validators, nextTx, held, heldAt>>

\* The batch a caller hands to propose_block: the first two transactions of
\* the pool in reverse order, or all of a shorter pool.  (A round hands over
\* the head of the pool, see RoundVote.)
ProposalBatches(pool) ==
    {IF Len(pool) >= 2 THEN <<pool[2], pool[1]>> ELSE pool}

\* validator.propose_block(batch) called from outside a round on the first
\* validator; the caller keeps the returned block.  (A round calls it on
\* every validator that can lead, see RoundVote.)
Propose ==
    /\ held = <<>>
    /\ \E i \in {1}, t \in now..MaxTime :
       \E batch \in ProposalBatches(mempool) :
       \E block \in {propose_block(validators[i].address, batch, chain, t)} :
          /\ held' = <<block>>
          /\ heldAt' = Len(chain)
          /\ now' = t
          /\ last' = [op |-> "propose_block", validator |-> i, block |-> block,
                      batch |-> batch, chain0 |-> chain]
    /\ UNCHANGED <<chain, mempool, validators, nextTx>>

\* validator.validate_block(block) called from outside a round, by any
\* validator, on the block the caller kept; all validators hold the one
\* Blockchain object, so the answer does not depend on who is asked
Validate ==
    /\ held # <<>>
    /\ \E i \in 1..Len(validators) :
         last' = [op |-> "validate_block", block |-> held[1],
                  ret |-> validate_block("real", held[1], chain), chain0 |-> chain]
    /\ UNCHANGED <<chain, mempool, validators, now, nextTx, held, heldAt>>

\* blockchain.add_block(block) on the block the caller kept
AddHeld ==
    /\ held # <<>>
    /\ Len(chain) < MaxChain
    /\ \E r \in {add_block(chain, held[1])} :
         /\ chain' = r.chain
         /\ last' = [op |-> "add_block", block |-> held[1], ret |-> r.ret,
                     why |-> validation_warning(held[1], last_block(chain)),
                     chain0 |-> chain]
    /\ UNCHANGED <<mempool, validators, now, nextTx, held, heldAt>>

\* what the request of _fetch_mock_transactions ends in: a reply of n posts,
\* a RequestException, or a reply whose JSON stops being a list of objects
\* after n posts
FetchReplies ==
    {[kind |-> "posts", n |-> n] : n \in FetchSizes}
        \cup {[kind |-> "failed", n |-> 0]}
        \cup {[kind |-> "malformed", n |-> n] : n \in MalformedAt}

\* the watermark test one too low
NeedsRefill_below_four(pool) == Len(pool) < LowWatermark - 1

\* if len(self.mempool) < 5
NeedsRefill(pool) == Len(pool) < LowWatermark

\* the draw and the reply a round meets: the API sends at most the number of
\* posts asked for; a round that does not refill draws and asks nothing
FetchInputs(pool) ==
    IF NeedsRefill(pool)
    THEN {f \in [count : RequestCounts, reply : FetchReplies] : f.reply.n <= f.count}
    ELSE {[count |-> 0, reply |-> [kind |-> "unused", n |-> 0]]}

\* _fetch_mock_transactions whose fallback loop stops one short of count
fetch_mock_transactions_short_fallback(pool, first, count, reply) ==
    IF reply.kind = "failed"
    THEN [mempool |-> pool \o FreshTxs(first, count - 1), raised |-> FALSE]
    ELSE [mempool |-> pool \o FreshTxs(first, reply.n),
          raised |-> reply.kind = "malformed"]

\* _fetch_mock_transactions(count): the mempool afterwards and whether the
\* call raised; first is the first Transaction object it creates.  A
\* RequestException is caught and count transactions are made locally; any
\* other exception (AttributeError, TypeError on a malformed reply) leaves
\* the function after the posts before it were appended.
fetch_mock_transactions(pool, first, count, reply) ==
    IF reply.kind = "failed"
    THEN [mempool |-> pool \o FreshTxs(first, count), raised |-> FALSE]
    ELSE [mempool |-> pool \o FreshTxs(first, reply.n),
          raised |-> reply.kind = "malformed"]

\* step 1 of run_simulation_round: the mempool after the pooling step and
\* whether the step raised
Pooling(pool, first, count, reply) ==
    IF NeedsRefill(pool) THEN fetch_mock_transactions(pool, first, count, reply)
    ELSE [mempool |-> pool, raised |-> FALSE]

\* how the pooling step got its transactions
FetchKind(pool, reply) ==
    IF ~NeedsRefill(pool) THEN "none"
    ELSE IF reply.kind = "failed" THEN "fallback" ELSE reply.kind

\* the stubbings of a round: the leader's validate_block is never reached
RoundModes(vs, leader) ==
    {m \in [1..Len(vs) -> VoteModes] : m[leader] = "real"}

\* the round of the program as it is: nobody is stubbed
HonestModes(vs, leader) == {[i \in 1..Len(vs) |-> "real"]}

\* the stubbing of the scenario: everybody but the leader refuses
ScenarioModes(vs, leader) ==
    {m \in RoundModes(vs, leader) :
        \A i \in 1..Len(vs) : i # leader => m[i] = "no"}

\* what every run_simulation_round records, whatever its outcome
RoundBase(pooled, count, reply) ==
    [op |-> "run_simulation_round", refill |-> NeedsRefill(mempool),
     fetch |-> FetchKind(mempool, reply),
     count |-> IF FetchKind(mempool, reply) = "fallback" THEN count ELSE 0,
     chain0 |-> chain, pooled |-> pooled]

\* the pooling step of a round on the draw count and the reply, with what
\* the round records of it
RoundStart(count, reply) ==
    LET step == Pooling(mempool, nextTx, count, reply)
    IN  [step |-> step, base |-> RoundBase(step.mempool, count, reply)]

\* a batch one transaction short of the drained slice
RoundBatch_short(pooled) == Take(pooled, BatchSize - 1)

\* transactions_for_block = self.mempool[:5]
RoundBatch(pooled) == Take(pooled, BatchSize)

\* the outcome of step 5 and 6: threshold met or not, final append or not
RoundStatus(reached, added) ==
    IF ~reached THEN "REJECTED"
    ELSE IF added THEN "COMMITTED" ELSE "FAILED_FINAL"

\* a commit that drains one transaction fewer than the block took
PoolAfterRound_drains_four(pooled, reached, added) ==
    IF reached /\ added THEN Drop(pooled, BatchSize - 1) ELSE pooled

\* the drain moved out of the commit branch
PoolAfterRound_always_drains(pooled, reached, added) == Drop(pooled, BatchSize)

\* the mempool a round leaves: self.mempool[5:] after a commit only
PoolAfterRound(pooled, reached, added) ==
    IF reached /\ added THEN Drop(pooled, BatchSize) ELSE pooled

\* steps 2 to 6 of run_simulation_round: leader, proposal, vote, commit
RoundVote(base, pooled, leader, modes, t) ==
    \E proposed \in {propose_block(validators[leader].address,
                                   RoundBatch(pooled), chain, t)} :
    \E tally \in {Tally(validators, Len(validators), leader, proposed, chain, modes)} :
    \E r \in {add_block(chain, proposed)} :
       LET reached == ConsensusReached(tally.approving, tally.total)
       IN  /\ now' = t
           /\ chain' = IF reached THEN r.chain ELSE chain
           /\ mempool' = PoolAfterRound(pooled, reached, r.ret)
           /\ last' = base @@
                [status |-> RoundStatus(reached, r.ret),
                 leader |-> leader, proposed |-> proposed, modes |-> modes,
                 total |-> tally.total, approving |-> tally.approving,
                 asked |-> tally.asked, votes |-> tally.votes]

\* run_simulation_round, with no validator stubbed ("none"), the stubbings
\* of the scenario ("scenario") or any stubbings ("any"); the draw of
\* randint(5, 10) and the outcome of the request are those of FetchInputs
Round(stubbing) ==
    /\ Len(chain) < MaxChain
    /\ nextTx - 1 <= MaxTx
    /\ \E start \in {RoundStart(f.count, f.reply) : f \in FetchInputs(mempool)} :
       \E step \in {start.step} :
       \E pooled \in {step.mempool} :
       \E base \in {start.base} :
         /\ nextTx' = nextTx + (Len(pooled) - Len(mempool))
         /\ IF step.raised
            THEN /\ last' = base @@ [status |-> "FETCH_RAISED"]
                 /\ mempool' = pooled
                 /\ UNCHANGED <<chain, now>>
            ELSE IF pooled = <<>>
            THEN /\ last' = base @@ [status |-> "NOOP"]
                 /\ mempool' = pooled
                 /\ UNCHANGED <<chain, now>>
            ELSE IF select_leader_raises(validators)
            THEN /\ last' = base @@ [status |-> "RAISED"]
                 /\ mempool' = pooled
                 /\ UNCHANGED <<chain, now>>
            ELSE \E leader \in select_leader(validators), t \in now..MaxTime :
                   \E modes \in CASE stubbing = "none" -> HonestModes(validators, leader)
                                    [] stubbing = "scenario" -> ScenarioModes(validators, leader)
                                    [] OTHER -> RoundModes(validators, leader) :
                      RoundVote(base, pooled, leader, modes, t)
    /\ UNCHANGED <<validators, held, heldAt>>

\* run_simulation_round with any validators stubbed
RunRound == Round("any")

\* run_simulation_round as the scenario runs it
ScenarioRound == Round("scenario")

\* run_simulation_round with no validator stubbed
HonestRound == Round("none")

Next == AddBlock \/ RunRound

Spec == Init /\ [][Next]_vars

\* The same program with a caller that keeps a proposed block across later
\* operations, for the constructor calls of HeldCalls.
HeldCalls == { [num |-> 2, stake |-> 80, draws |-> <<7, 11>>] }

InitHeld ==
    /\ now = 0
    /\ chain = <<create_genesis_block(0)>>
    /\ \E c \in HeldCalls :
          validators = create_validators(c.num, c.stake, c.draws)
    /\ mempool = <<>>
    /\ nextTx = 1
    /\ held = <<>>
    /\ heldAt = 0
    /\ last = NoCall

NextHeld == HonestRound \/ Propose \/ Validate \/ AddHeld

SpecHeld == InitHeld /\ [][NextHeld]_vars

\* The four-validator scenario, run round after round: its validators are
\* built by the caller with the stakes of the scenario, which no draw of
\* the constructor yields.
ScenarioStakes == <<10, 10, 10, 70>>

\* ... and a simulator as the constructor builds it
ScenarioCalls == { [num |-> 2, stake |-> 80, draws |-> <<7, 11>>] }

InitScenario ==
    /\ now = 0
    /\ chain = <<create_genesis_block(0)>>
    /\ \/ validators = BuiltValidators(ScenarioStakes)
       \/ \E c \in ScenarioCalls :
             validators = create_validators(c.num, c.stake, c.draws)
    /\ mempool = <<>>
    /\ nextTx = 1
    /\ held = <<>>
    /\ heldAt = 0
    /\ last = NoCall

NextScenario == ScenarioRound

SpecScenario == InitScenario /\ [][NextScenario]_vars

\* A simulator of three validators of equal stake, and one of a single
\* validator, run round after round with any validators stubbed.
VoteCalls ==
    { [num |-> 3, stake |-> 100, draws |-> <<8, 8, 8>>],
      [num |-> 1, stake |-> 80, draws |-> <<7>>] }

InitVote ==
    /\ now = 0
    /\ chain = <<create_genesis_block(0)>>
    /\ \E c \in VoteCalls :
          validators = create_validators(c.num, c.stake, c.draws)
    /\ mempool = <<>>
    /\ nextTx = 1
    /\ held = <<>>
    /\ heldAt = 0
    /\ last = NoCall

NextVote == RunRound

SpecVote == InitVote /\ [][NextVote]_vars

(* ------------------------------- claims ------------------------------- *)

\* the last operation was a round that went as far as the vote
RoundVoted ==
    /\ last.op = "run_simulation_round"
    /\ last.status \in {"COMMITTED", "REJECTED", "FAILED_FINAL"}

\* C1: every adjacent pair of stored blocks has consecutive indices and the
\* later block's previous_hash is the earlier block's hash.
C1_Linkage ==
    \A i \in 1..(Len(chain) - 1) :
        /\ chain[i + 1].index = chain[i].index + 1
        /\ chain[i + 1].previous_hash = chain[i].hash

\* a chain of three blocks, the second appended by a round and the third by
\* a direct add_block call
C1_Witness ==
    /\ Len(chain) = 3
    /\ chain[2].validator # SYSTEM_GENESIS
    /\ last.op = "add_block" /\ last.ret

\* C2: add_block returns true exactly when is_block_valid(b, last_block)
\* holds; on true the chain is the old chain with b appended, on false the
\* chain is the old chain.
C2_AppendGate ==
    last.op = "add_block" =>
        /\ last.ret = is_block_valid(last.block, last_block(last.chain0))
        /\ last.ret => chain = Append(last.chain0, last.block)
        /\ ~last.ret => chain = last.chain0

\* add_block refused a block that has the right index and a wrong previous
\* hash, on a chain that had already grown
C2_Witness ==
    /\ last.op = "add_block" /\ ~last.ret
    /\ Len(last.chain0) >= 2
    /\ last.block.index = last_block(last.chain0).index + 1
    /\ last.block.previous_hash # last_block(last.chain0).hash

\* C3: a round that reaches the vote commits, appending the proposed block,
\* exactly when approving stake / total stake >= 2/3; with total stake 300,
\* approving 200 commits and less than 200 does not.
C3_ThresholdCommit ==
    RoundVoted =>
        /\ last.total > 0
        /\ (last.status = "COMMITTED") = (3 * last.approving >= 2 * last.total)
        /\ (last.status = "COMMITTED") = (chain = Append(last.chain0, last.proposed))
        /\ last.total = 300 /\ last.approving = 200 => last.status = "COMMITTED"
        /\ last.total = 300 /\ last.approving < 200 => last.status = "REJECTED"

\* a round committed with approving stake exactly 200 of 300
C3_Witness ==
    /\ RoundVoted
    /\ last.status = "COMMITTED"
    /\ last.total = 300 /\ last.approving = 200

\* C4: a round that ends REJECTED (threshold not met, or pool empty after
\* the refill attempt) leaves the chain as it was before the round and the
\* mempool as it was right after the pooling step.
C4_RejectedFrame ==
    last.op = "run_simulation_round" /\ last.status \in {"REJECTED", "NOOP"} =>
        /\ chain = last.chain0
        /\ mempool = last.pooled

\* a round that refilled the pool, failed the vote and kept the seven
\* pooled transactions
C4_Witness ==
    /\ last.op = "run_simulation_round" /\ last.status = "REJECTED"
    /\ last.refill
    /\ Len(last.pooled) = 7 /\ mempool = last.pooled

\* C5: in a committed round, with P the pool after the pooling step and
\* n = min(5, |P|), the appended block holds the first n elements of P in
\* order and the mempool afterwards is the rest of P in order.
C5_BatchDrain ==
    last.op = "run_simulation_round" /\ last.status = "COMMITTED" =>
        LET P == last.pooled
            n == IF Len(P) < 5 THEN Len(P) ELSE 5
        IN  /\ Len(last_block(chain).transactions) = n
            /\ \A k \in 1..n : last_block(chain).transactions[k] = P[k]
            /\ Len(mempool) = Len(P) - n
            /\ \A k \in 1..(Len(P) - n) : mempool[k] = P[n + k]

\* a committed round on a pool of seven: five in the block, two left
C5_Witness ==
    /\ last.op = "run_simulation_round" /\ last.status = "COMMITTED"
    /\ Len(last.pooled) = 7
    /\ Len(last_block(chain).transactions) = 5
    /\ Len(mempool) = 2

\* C6: whenever the approving stake meets the threshold the final add_block
\* succeeds: the proposed block is valid on the tip the round started from,
\* it is appended, and no round ends with the failed-final-validation
\* outcome.
C6_NoFinalFailure ==
    /\ last.op = "run_simulation_round" => last.status # "FAILED_FINAL"
    /\ RoundVoted /\ 3 * last.approving >= 2 * last.total =>
          /\ is_block_valid(last.proposed, last_block(last.chain0))
          /\ last_block(chain) = last.proposed
          /\ Len(chain) = Len(last.chain0) + 1

\* a round committed although one validator voted against the block
C6_Witness ==
    /\ RoundVoted
    /\ last.status = "COMMITTED"
    /\ \E i \in 1..Len(validators) : last.votes[i] = "no"

\* the last call was validate_block or add_block on the block kept from an
\* earlier propose_block, and the chain has grown since that proposal
StaleCall ==
    /\ last.op \in {"validate_block", "add_block"}
    /\ held # <<>>
    /\ last.block = held[1]
    /\ Len(last.chain0) > heldAt

\* C7: validate_block checks the candidate against the tip at the time of
\* the call; a block proposed at tip T is refused by validate_block of every
\* validator and by add_block once the chain has grown beyond T, and is not
\* appended.
C7_StaleRejected ==
    /\ last.op = "validate_block" =>
          last.ret = is_block_valid(last.block, last_block(last.chain0))
    /\ StaleCall => ~last.ret /\ chain = last.chain0

\* add_block was called on the kept block after a round had moved the tip
C7_Witness ==
    /\ StaleCall
    /\ last.op = "add_block"
    /\ last_block(last.chain0).validator # held[1].validator
    /\ ~last.ret

RECURSIVE StakeOf(_)
\* the sum of the stakes of the validators numbered in S
StakeOf(S) ==
    IF S = {} THEN 0
    ELSE LET i == CHOOSE x \in S : TRUE
         IN  validators[i].stake + StakeOf(S \ {i})

\* C8: in the tally the leader is approved without a validate_block call,
\* every other validator is asked exactly once and its full stake counts as
\* approving exactly when that call returned true; the total is the stake
\* of all validators, leader included.
C8_TallyRule ==
    RoundVoted =>
        LET V == 1..Len(validators)
            approvers == {i \in V : i = last.leader \/ last.votes[i] = "yes"}
        IN  /\ last.leader \in V
            /\ last.asked[last.leader] = 0 /\ last.votes[last.leader] = "auto"
            /\ \A i \in V \ {last.leader} :
                  last.asked[i] = 1 /\ last.votes[i] \in {"yes", "no"}
            /\ last.approving = StakeOf(approvers)
            /\ last.total = StakeOf(V)

\* a tally with the leader, a validator that approved and one that refused
C8_Witness ==
    /\ RoundVoted
    /\ \E i, j \in 1..Len(validators) :
          last.votes[i] = "yes" /\ last.votes[j] = "no"

\* the round was voted on with every validator but the leader refusing
OthersRefuse ==
    /\ RoundVoted
    /\ \A i \in 1..Len(validators) : i # last.leader => last.votes[i] = "no"

\* C9: with every non-leader refusing, stakes [10, 10, 10, 70] commit and
\* grow the chain by one block when the leader is the stake-70 validator and
\* are rejected with the chain length unchanged when the leader has stake
\* 10; in general the round commits exactly when the leader holds at least
\* 2/3 of the total stake.
C9_LeaderAlone ==
    OthersRefuse =>
        LET stake == validators[last.leader].stake
            sum == StakeOf(1..Len(validators))
            grew == Len(chain) = Len(last.chain0) + 1
            same == Len(chain) = Len(last.chain0)
        IN  /\ (last.status = "COMMITTED") = (3 * stake >= 2 * sum)
            /\ last.status = "COMMITTED" => grew
            /\ last.status # "COMMITTED" => last.status = "REJECTED" /\ same
            /\ sum = 100 /\ stake = 70 => last.status = "COMMITTED" /\ grew
            /\ sum = 100 /\ stake = 10 => last.status = "REJECTED" /\ same

\* the stake-70 leader of the four validators committed alone
C9_Witness ==
    /\ OthersRefuse
    /\ Len(validators) = 4
    /\ validators[last.leader].stake = 70
    /\ last.approving = 70 /\ last.total = 100
    /\ last.status = "COMMITTED"
    /\ Len(chain) = Len(last.chain0) + 1

\* C10: the stored hash of every block of the chain equals the hash
\* recomputed from its index, timestamp, transactions, previous_hash and
\* validator.
C10_HashIntegrity ==
    \A i \in 1..Len(chain) : chain[i].hash = calculate_hash(chain[i])

\* a block whose hash attribute had been overwritten was offered on a chain
\* grown by a round, with the right index and previous hash, and refused
C10_Witness ==
    /\ last.op = "add_block" /\ ~last.ret
    /\ Len(chain) >= 2 /\ chain[2].validator # SYSTEM_GENESIS
    /\ last.block.index = last_block(chain).index + 1
    /\ last.block.previous_hash = last_block(chain).hash
    /\ last.block.hash # calculate_hash(last.block)

\* C11: a freshly constructed Blockchain holds exactly one block: index 0,
\* no transactions, previous_hash the all-zero digest, the sentinel
\* proposer, and a hash equal to the hash recomputed from its fields; the
\* chain is never empty, so last_block is always defined.
C11_Genesis ==
    /\ Len(chain) >= 1
    /\ last.op = "none" =>
          /\ Len(chain) = 1
          /\ chain[1].index = 0
          /\ chain[1].transactions = <<>>
          /\ chain[1].previous_hash = <<0>>
          /\ chain[1].validator = SYSTEM_GENESIS
          /\ chain[1].hash = calculate_hash(chain[1])
          /\ last_block(chain) = chain[1]

\* the simulator of two validators right after construction
C11_Witness ==
    /\ last.op = "none"
    /\ Len(validators) = 2
    /\ Len(chain) = 1 /\ mempool = <<>>

\* C12: in every step the chain stays as it is or gets exactly one block
\* added at its end; it never shrinks and no stored block is replaced or
\* moved, so one round lengthens it by at most one block.
C12_AppendOnly ==
    [][\/ chain' = chain
       \/ /\ Len(chain') = Len(chain) + 1
          /\ SubSeq(chain', 1, Len(chain)) = chain]_vars

\* a round appended the third block to the two the chain had before
C12_Witness ==
    /\ last.op = "run_simulation_round" /\ last.status = "COMMITTED"
    /\ Len(chain) = 3
    /\ SubSeq(chain, 1, 2) = last.chain0

\* C13: every run_simulation_round call of every simulator the constructor
\* builds ends in COMMITTED or REJECTED (the empty-pool round counted as
\* rejected) and returns; none stops part-way on an error raised during
\* leader selection or the tally.  Rounds that a malformed reply of the
\* transaction source aborts are left aside.
C13_RoundTerminates ==
    last.op = "run_simulation_round" /\ last.fetch # "malformed" =>
        last.status \in {"COMMITTED", "REJECTED", "NOOP"}

\* C14: a round asks for more transactions exactly when the mempool holds
\* fewer than 5 at its start; a round whose pool is still empty after that
\* ends as a no-op: no leader, no proposal, no vote, chain unchanged.
C14_RefillRule ==
    [][last'.op = "run_simulation_round" =>
          /\ last'.refill = (Len(mempool) < 5)
          /\ last'.refill = (last'.fetch # "none")
          /\ ~last'.refill => last'.pooled = mempool /\ nextTx' = nextTx
          /\ last'.fetch # "malformed" =>
                (last'.pooled = <<>>) = (last'.status = "NOOP")
          /\ last'.status = "NOOP" =>
                /\ chain' = chain
                /\ mempool' = <<>>
                /\ {"leader", "proposed", "votes"} \cap DOMAIN last' = {}]_vars

\* a no-op round: the chain had grown, the pool was empty and the API
\* replied with no posts
C14_Witness ==
    /\ last.op = "run_simulation_round" /\ last.status = "NOOP"
    /\ last.refill /\ last.fetch = "posts"
    /\ Len(chain) >= 2 /\ chain = last.chain0

\* C15: a failed request of the pooling step is answered inside the fetch by
\* generating the requested number of transactions and appending them to
\* the mempool; the round then goes on to leader selection with a non-empty
\* mempool.
C15_FetchFallback ==
    [][last'.op = "run_simulation_round" /\ last'.fetch = "fallback" =>
          /\ last'.count \in 5..10
          /\ last'.pooled = mempool \o [k \in 1..last'.count |-> nextTx + k - 1]
          /\ nextTx' = nextTx + last'.count
          /\ last'.pooled # <<>>
          /\ last'.status \in {"RAISED", "REJECTED", "COMMITTED", "FAILED_FINAL"}]_vars

\* a round whose request failed on a draw of 10 committed a block from the
\* ten locally generated transactions and left five of them in the pool
C15_Witness ==
    /\ last.op = "run_simulation_round" /\ last.fetch = "fallback"
    /\ last.count = 10 /\ Len(last.pooled) = 10
    /\ last.status = "COMMITTED" /\ Len(mempool) = 5

\* C16: propose_block returns a block with index tip.index + 1,
\* previous_hash tip.hash, the proposer's address and the given batch in the
\* given order; the chain is left as it was and the block is valid on the
\* tip it was built on.  The same holds of the proposal inside a round, whose
\* batch is the head of the pool.
C16_ProposeFrame ==
    /\ last.op = "propose_block" =>
          LET tip == last_block(last.chain0)
          IN  /\ last.block.index = tip.index + 1
              /\ last.block.previous_hash = tip.hash
              /\ last.block.validator = validators[last.validator].address
              /\ last.block.transactions = last.batch
              /\ chain = last.chain0
              /\ is_block_valid(last.block, tip)
    /\ RoundVoted =>
          LET tip == last_block(last.chain0)
          IN  /\ last.proposed.index = tip.index + 1
              /\ last.proposed.previous_hash = tip.hash
              /\ last.proposed.validator = validators[last.leader].address
              /\ last.proposed.transactions = RoundBatch(last.pooled)
              /\ is_block_valid(last.proposed, tip)

\* a proposal on a grown chain for a batch that is not in pool order
C16_Witness ==
    /\ last.op = "propose_block"
    /\ Len(chain) >= 2
    /\ Len(last.batch) = 2 /\ last.batch[1] > last.batch[2]
    /\ last.block.transactions = last.batch

\* C17: each round that reaches leader selection (its pool is non-empty
\* after the pooling step) selects exactly one leader, a member of the
\* validator set, drawn with weight stake / total stake, so a validator of
\* positive weight.
C17_OneLeader ==
    /\ last.op = "run_simulation_round"
    /\ last.status # "FETCH_RAISED" /\ last.pooled # <<>>
    => /\ "leader" \in DOMAIN last
       /\ last.leader \in 1..Len(validators)
       /\ validators[last.leader].stake > 0

\* C18: is_block_valid is true exactly when the index follows, the previous
\* hash links and the stored hash equals the recomputed one; the checks are
\* made in that order and the first failing one is the one reported; the
\* result is a boolean and a refusal leaves the chain as it was.
C18_ValidationOrder ==
    last.op = "add_block" =>
        LET b == last.block
            p == last_block(last.chain0)
            indexOk == b.index = p.index + 1
            linkOk == b.previous_hash = p.hash
            hashOk == b.hash = calculate_hash(b)
        IN  /\ last.ret \in BOOLEAN
            /\ last.ret = (indexOk /\ linkOk /\ hashOk)
            /\ ~indexOk => last.why = "index"
            /\ indexOk /\ ~linkOk => last.why = "previous_hash"
            /\ indexOk /\ linkOk /\ ~hashOk => last.why = "hash"
            /\ last.ret = (last.why = "none")
            /\ ~last.ret => chain = last.chain0

\* a candidate with the right index, a wrong link and a wrong hash was
\* refused for its link, on a chain that had grown
C18_Witness ==
    /\ last.op = "add_block" /\ ~last.ret
    /\ Len(last.chain0) >= 2
    /\ last.block.index = last_block(last.chain0).index + 1
    /\ last.block.previous_hash # last_block(last.chain0).hash
    /\ last.block.hash # calculate_hash(last.block)
    /\ last.why = "previous_hash"

\* C19: with no validator stubbed, at least one validator and positive
\* stakes, every round whose mempool is non-empty after the pooling step
\* commits: every validator approves, approving stake equals total stake,
\* the final add_block succeeds and the chain grows by exactly one block.
C19_HonestRoundCommits ==
    /\ last.op = "run_simulation_round"
    /\ last.fetch # "malformed"
    /\ last.pooled # <<>>
    /\ Len(validators) >= 1
    /\ \A i \in 1..Len(validators) : validators[i].stake > 0
    => /\ RoundVoted
       /\ (\A i \in 1..Len(validators) : last.modes[i] = "real") =>
             /\ last.status = "COMMITTED"
             /\ \A i \in 1..Len(validators) : last.votes[i] \in {"auto", "yes"}
             /\ last.approving = last.total
             /\ Len(chain) = Len(last.chain0) + 1
             /\ last_block(chain) = last.proposed

\* three unstubbed validators committed with all 300 of 300 approving
C19_Witness ==
    /\ RoundVoted
    /\ Len(validators) = 3
    /\ \A i \in 1..3 : last.modes[i] = "real" /\ validators[i].stake > 0
    /\ last.status = "COMMITTED"
    /\ last.approving = 300 /\ last.total = 300

RECURSIVE ChainTxs(_, _)
\* the transactions of the first n blocks of c, in chain order
ChainTxs(c, n) ==
    IF n = 0 THEN <<>> ELSE ChainTxs(c, n - 1) \o c[n].transactions

\* C20: after any sequence of rounds the transactions of the blocks in
\* chain order followed by the mempool are all the transactions ever added
\* to the mempool, in arrival order: none lost, none twice, FIFO.
C20_Conservation ==
    ChainTxs(chain, Len(chain)) \o mempool = [k \in 1..(nextTx - 1) |-> k]

\* two committed blocks with transactions and a non-empty mempool left
C20_Witness ==
    /\ Len(chain) = 3
    /\ chain[2].transactions # <<>> /\ chain[3].transactions # <<>>
    /\ mempool # <<>>
    /\ last.op = "run_simulation_round"

====
